---- MODULE Spec2Model ----
(***************************************************************************)
(* Model of the ops-copilot agent: the planner (worker/agent/planner.py),  *)
(* the document search tool (worker/agent/tools.py), the job lifecycle     *)
(* (worker/tasks.py) and the submission route (api/routes.py).             *)
(*                                                                         *)
(* A Python str is a sequence of one-character strings, so that lower(),   *)
(* the substring test `kw in text`, slicing and re.findall are computed    *)
(* character by character.  Python's None is the value None below.         *)
(***************************************************************************)
EXTENDS Integers, Sequences, FiniteSets, TLC

VARIABLES
  \* ---- planner (worker/agent/planner.py) ----
  text,        \* the argument of create_plan
  env,         \* the environment create_plan reads: USE_REAL_LLM, LLM_API_KEY
  plan,        \* the AgentPlan create_plan returned, NoPlan before the call
  httpCalls,   \* number of httpx.post calls made by the create_plan call
  planRaised,  \* TRUE when the create_plan call ended with an exception
  llmResponse, \* what the POST to the completion endpoint ended in
  ppc,         \* "idle" before the create_plan call, "done" after it
  \* ---- job lifecycle (worker/tasks.py, api/routes.py) ----
  requests,    \* the committed rows of table requests; the id is the index
  queue,       \* the RQ queue "lab_requests": job ids, head first
  failedJobs,  \* job ids whose process_request raised (RQ's failed registry)
  worker,      \* the worker's position inside process_request
  clock,       \* datetime.utcnow()
  requeues,    \* number of re-runs the hosting queue has started
  \* ---- document search (worker/agent/tools.py) ----
  searchQuery, \* the argument of search_docs
  dirExists,   \* RUNBOOKS_DIR.exists()
  corpus,      \* the files RUNBOOKS_DIR.glob("*.md") yields, in its order
  hits,        \* the list search_docs returned
  docsRaised,  \* TRUE when the search_docs call ended with an exception
  dpc,         \* "idle" before the search_docs call, "done" after it, "again" after a second one
  iterOrder,   \* the order in which the last call iterated the keyword set
  \* ---- incident search (worker/agent/tools.py) ----
  incQuery,    \* the argument of query_incidents
  incidents,   \* the rows of table incidents
  incFetched,  \* the rows the query of query_incidents returned (.all())
  incResults,  \* the list query_incidents returned
  ipc,         \* "idle" before the query_incidents call, "done" after it
  prevHits,    \* what the search_docs call before the last one returned
  \* ---- GET /health (api/routes.py) ----
  dbCheck,     \* what db.execute(text("SELECT 1")) does during the call
  redisCheck,  \* what get_redis() and redis.ping() do
  queueCheck,  \* what get_queue() and len(queue) do
  healthNow,   \* datetime.utcnow() at the return
  health,      \* the HealthResponse returned
  hpc          \* "idle" before the health_check call, "done" after it

pvars == <<text, env, plan, httpCalls, planRaised, llmResponse, ppc>>
jvars == <<requests, queue, failedJobs, worker, clock, requeues>>
dvars == <<searchQuery, dirExists, corpus, hits, docsRaised, dpc, iterOrder>>
ivars == <<incQuery, incidents, incFetched, incResults, ipc>>
hvars == <<dbCheck, redisCheck, queueCheck, healthNow, health, hpc>>
tvars == <<ivars, prevHits, hvars>>
vars == <<pvars, jvars, dvars, tvars>>

(***************************************************************************)
(* Bounds of the model.                                                    *)
(***************************************************************************)
\* texts are concatenations of at most MaxChunks pieces of ChunkPool
MaxChunks == 3
\* a completion returned by the LLM endpoint has at most MaxLlmSteps steps
MaxLlmSteps == 2
\* the submission route is called at most MaxRequests times
MaxRequests == 2
\* the hosting queue re-runs failed jobs at most MaxRequeues times
MaxRequeues == 2
\* the runbooks directory holds at most MaxFiles files
MaxFiles == 6
\* table incidents holds at most MaxIncidents rows
MaxIncidents == 16
\* the text between two keywords of a long document has at most MaxGap characters
MaxGap == 120
\* the queue holds at most MaxPending jobs when GET /health reads its length
MaxPending == 2

(***************************************************************************)
(* Characters and strings.                                                 *)
(***************************************************************************)
LowerCase ==
  << "a","b","c","d","e","f","g","h","i","j","k","l","m",
     "n","o","p","q","r","s","t","u","v","w","x","y","z" >>
UpperCase ==
  << "A","B","C","D","E","F","G","H","I","J","K","L","M",
     "N","O","P","Q","R","S","T","U","V","W","X","Y","Z" >>
Digits == {"0","1","2","3","4","5","6","7","8","9"}

Range(f) == {f[i] : i \in DOMAIN f}

\* Python's None; no str is equal to it (a str holds one-character strings)
None == <<"None">>

\* [a-zA-Z]
Letters == Range(LowerCase) \cup Range(UpperCase)
IsLetter(c) == c \in Letters
\* \w of the re module on ASCII text
WordChars == Letters \cup Digits \cup {"_"}
IsWordChar(c) == c \in WordChars

\* str.lower() on one character
UpperSet == Range(UpperCase)
LowerOf == [c \in UpperSet |-> LowerCase[CHOOSE i \in DOMAIN UpperCase : UpperCase[i] = c]]
LowerChar(c) == IF c \in UpperSet THEN LowerOf[c] ELSE c

\* str.lower()
Lower(s) == [i \in DOMAIN s |-> LowerChar(s[i])]

\* sub in s
Contains(sub, s) ==
  \E i \in 0..(Len(s) - Len(sub)) : SubSeq(s, i + 1, i + Len(sub)) = sub

\* s[:n]
Prefix(s, n) == SubSeq(s, 1, IF Len(s) < n THEN Len(s) ELSE n)

\* " ".join(words)
RECURSIVE JoinSpace(_)
JoinSpace(words) ==
  IF words = <<>> THEN <<>>
  ELSE IF Len(words) = 1 THEN words[1]
  ELSE words[1] \o <<" ">> \o JoinSpace(Tail(words))

\* \b between s[p] and s[p+1] (p = 0 is the start, p = Len(s) the end)
WordAt(s, p) == p >= 1 /\ p <= Len(s) /\ IsWordChar(s[p])
Boundary(s, p) == WordAt(s, p) # WordAt(s, p + 1)

\* the end of the match of \b[a-zA-Z]{3,}\b that starts at s[i], 0 if none:
\* the longest j with s[i..j] letters, at least 3 of them, and \b after s[j]
MatchEnds(s, i) ==
  { j \in (i + 2)..Len(s) :
      /\ \A k \in i..j : IsLetter(s[k])
      /\ Boundary(s, j) }
MatchAt(s, i) ==
  IF ~Boundary(s, i - 1) THEN 0
  ELSE LET ends == MatchEnds(s, i)
       IN  IF ends = {} THEN 0 ELSE CHOOSE j \in ends : \A k \in ends : k <= j

\* re.findall(r"\b[a-zA-Z]{3,}\b", s), scanning from position i
RECURSIVE FindAllFrom(_, _)
FindAllFrom(s, i) ==
  IF i > Len(s) THEN <<>>
  ELSE LET m == MatchAt(s, i)
       IN  IF m = 0 THEN FindAllFrom(s, i + 1)
           ELSE <<SubSeq(s, i, m)>> \o FindAllFrom(s, m + 1)

FindAll(s) == FindAllFrom(s, 1)

(***************************************************************************)
(* The vocabularies of planner.py.                                         *)
(***************************************************************************)
DOC_KEYWORDS ==
  << <<"h","o","w">>,
     <<"w","h","a","t">>,
     <<"g","u","i","d","e">>,
     <<"t","u","t","o","r","i","a","l">>,
     <<"t","r","o","u","b","l","e","s","h","o","o","t">>,
     <<"d","e","b","u","g">>,
     <<"f","i","x">>,
     <<"s","o","l","v","e">>,
     <<"h","e","l","p">>,
     <<"e","x","p","l","a","i","n">>,
     <<"d","o","c","u","m","e","n","t","a","t","i","o","n">>,
     <<"r","u","n","b","o","o","k">>,
     <<"p","r","o","c","e","d","u","r","e">>,
     <<"s","t","e","p","s">>,
     <<"d","e","p","l","o","y">>,
     <<"d","e","p","l","o","y","m","e","n","t">>,
     <<"d","a","t","a","b","a","s","e">>,
     <<"c","o","n","n","e","c","t","i","o","n">>,
     <<"t","i","m","e","o","u","t">>,
     <<"e","r","r","o","r">>,
     <<"c","o","n","f","i","g","u","r","e">>,
     <<"s","e","t","u","p">>,
     <<"i","n","s","t","a","l","l">> >>

INCIDENT_KEYWORDS ==
  << <<"i","n","c","i","d","e","n","t">>,
     <<"o","u","t","a","g","e">>,
     <<"i","s","s","u","e">>,
     <<"p","r","o","b","l","e","m">>,
     <<"f","a","i","l","u","r","e">>,
     <<"d","o","w","n">>,
     <<"a","l","e","r","t">>,
     <<"c","r","i","t","i","c","a","l">>,
     <<"r","e","c","e","n","t">>,
     <<"p","a","s","t">>,
     <<"h","i","s","t","o","r","y">>,
     <<"s","i","m","i","l","a","r">>,
     <<"p","r","e","v","i","o","u","s">>,
     <<"r","e","s","o","l","v","e","d">>,
     <<"r","o","o","t"," ","c","a","u","s","e">>,
     <<"p","o","s","t","m","o","r","t","e","m">> >>

stop_words ==
  { <<"t","h","e">>,
    <<"a","n","d">>,
    <<"f","o","r">>,
    <<"a","r","e">>,
    <<"b","u","t">>,
    <<"n","o","t">>,
    <<"y","o","u">>,
    <<"a","l","l">>,
    <<"c","a","n">>,
    <<"h","a","d">>,
    <<"h","e","r">>,
    <<"w","a","s">>,
    <<"o","n","e">>,
    <<"o","u","r">>,
    <<"o","u","t">>,
    <<"h","a","s">>,
    <<"h","a","v","e">>,
    <<"b","e","e","n">>,
    <<"w","o","u","l","d">>,
    <<"c","o","u","l","d">>,
    <<"t","h","e","r","e">>,
    <<"t","h","e","i","r">>,
    <<"w","i","l","l">>,
    <<"w","h","e","n">>,
    <<"w","h","o">>,
    <<"w","i","t","h">>,
    <<"t","h","i","s">>,
    <<"t","h","a","t">>,
    <<"f","r","o","m">>,
    <<"h","o","w">> }

\* keywords[:5] and text[:50]
MaxQueryKeywords == 5
MaxQueryChars == 50

(***************************************************************************)
(* The deterministic planner.                                              *)
(***************************************************************************)
\* [w for w in words if w not in stop_words]
extract_keywords(t) == SelectSeq(FindAll(Lower(t)), LAMBDA w : w \notin stop_words)

\* any(keyword in text_lower for keyword in DOC_KEYWORDS)
needs_docs(t) ==
  LET text_lower == Lower(t)
  IN  \E i \in DOMAIN DOC_KEYWORDS : Contains(DOC_KEYWORDS[i], text_lower)

\* any(keyword in text_lower for keyword in INCIDENT_KEYWORDS)
needs_incidents(t) ==
  LET text_lower == Lower(t)
  IN  \E i \in DOMAIN INCIDENT_KEYWORDS : Contains(INCIDENT_KEYWORDS[i], text_lower)

PlanStep(n, a, tl, inp) ==
  [step_number |-> n, action |-> a, tool |-> tl, tool_input |-> inp]

\* query = " ".join(keywords[:5]) if keywords else text[:50]
PlanQuery(t, keywords) ==
  IF keywords # <<>>
  THEN JoinSpace(Prefix(keywords, MaxQueryKeywords))
  ELSE Prefix(t, MaxQueryChars)

\* FailOpen without the branch that forces both flags
FailOpen_NotForced(nd, ni) == [docs |-> nd, incidents |-> ni]

\* if not needs_docs and not needs_incidents: both = True
FailOpen(nd, ni) ==
  IF ~nd /\ ~ni THEN [docs |-> TRUE, incidents |-> TRUE]
  ELSE [docs |-> nd, incidents |-> ni]

\* PlanSteps without the final append of the synthesis step
PlanSteps_NoSynthesis(flags, query) ==
  (IF flags.docs THEN << PlanStep(1, "Search documentation for relevant runbooks",
                                  "search_docs", query) >> ELSE <<>>)
    \o (IF flags.incidents
        THEN << PlanStep(IF flags.docs THEN 2 ELSE 1,
                         "Query incident database for related incidents",
                         "query_incidents", query) >>
        ELSE <<>>)

\* PlanSteps with `step_num += 1` missing after the search_docs append
PlanSteps_NoIncrement(flags, query) ==
  LET s1 == IF flags.docs
            THEN << PlanStep(1, "Search documentation for relevant runbooks",
                             "search_docs", query) >>
            ELSE <<>>
      s2 == IF flags.incidents
            THEN Append(s1, PlanStep(1, "Query incident database for related incidents",
                                     "query_incidents", query))
            ELSE s1
  IN  Append(s2, PlanStep(IF flags.incidents THEN 2 ELSE 1,
                          "Synthesize findings and provide recommendation",
                          "none", None))

\* the three appends to steps; step_num is one more than the steps appended
PlanSteps(flags, query) ==
  LET s1 == IF flags.docs
            THEN << PlanStep(1, "Search documentation for relevant runbooks",
                             "search_docs", query) >>
            ELSE <<>>
      s2 == IF flags.incidents
            THEN Append(s1, PlanStep(Len(s1) + 1,
                                     "Query incident database for related incidents",
                                     "query_incidents", query))
            ELSE s1
  IN  Append(s2, PlanStep(Len(s2) + 1,
                          "Synthesize findings and provide recommendation",
                          "none", None))

\* the templated reasoning sentence, as its variable parts
PlanReasoning(flags, keywords) ==
  << IF flags.docs THEN "documentation search" ELSE "",
     IF flags.docs /\ flags.incidents THEN " and " ELSE "",
     IF flags.incidents THEN "incident history lookup" ELSE "",
     IF keywords # <<>> THEN Prefix(keywords, MaxQueryKeywords)
     ELSE <<"general inquiry">> >>

create_deterministic_plan(t) ==
  LET keywords == extract_keywords(t)
      flags == FailOpen(needs_docs(t), needs_incidents(t))
  IN  [ reasoning |-> PlanReasoning(flags, keywords),
        steps |-> PlanSteps(flags, PlanQuery(t, keywords)) ]

(***************************************************************************)
(* The LLM-backed planner.                                                 *)
(***************************************************************************)
\* `if not api_key`: an unset variable (None) and the empty string are falsy
Truthy(v) == v # None /\ v # <<>>

\* os.getenv("USE_REAL_LLM", "false").lower() == "true"
UseLlm(e) ==
  Lower(IF e.USE_REAL_LLM = None THEN <<"f","a","l","s","e">> ELSE e.USE_REAL_LLM)
    = <<"t","r","u","e">>

ToolNames == {"search_docs", "query_incidents", "none"}

\* AgentPlan(**plan_data): the Plan shape of the data model, a reasoning string
\* and a sequence of steps whose tool is one of the three tool values
ValidPlanData(d) ==
  /\ d.reasoning # None
  /\ \A i \in DOMAIN d.steps : d.steps[i].tool \in ToolNames

\* the body of the try block: post, raise_for_status, response.json(),
\* json.loads(content), AgentPlan(**plan_data); raised says it ended in an
\* exception, posts counts the httpx.post calls it made
TryLlmPlan(resp) ==
  IF resp.kind = "ok" /\ ValidPlanData(resp.data)
  THEN [raised |-> FALSE, posts |-> 1,
        value |-> [reasoning |-> resp.data.reasoning, steps |-> resp.data.steps]]
  ELSE [raised |-> TRUE, posts |-> 1, value |-> None]

\* LlmFallback without the except clause: the exception leaves create_plan
LlmFallback_Propagates(t, r) == r

\* except Exception: log and return _create_deterministic_plan(text)
LlmFallback(t, r) ==
  IF r.raised
  THEN [raised |-> FALSE, posts |-> r.posts, value |-> create_deterministic_plan(t)]
  ELSE r

create_llm_plan(t, e, resp) ==
  IF ~Truthy(e.LLM_API_KEY)
  THEN [raised |-> FALSE, posts |-> 0, value |-> create_deterministic_plan(t)]
  ELSE LlmFallback(t, TryLlmPlan(resp))

create_plan(t, e, resp) ==
  IF UseLlm(e)
  THEN create_llm_plan(t, e, resp)
  ELSE [raised |-> FALSE, posts |-> 0, value |-> create_deterministic_plan(t)]

(***************************************************************************)
(* Inputs of the planner.                                                  *)
(***************************************************************************)
\* pieces of request text: a documentation word, an incident word, a stop
\* word that is also a documentation word (capitalised), a stop word outside
\* both vocabularies, a word outside all lists, a space and a digit
ChunkPool ==
  << <<"F","i","x">>, <<"d","o","w","n">>, <<"H","o","w">>, <<"t","h","e">>,
     <<"a","b","c">>, <<" ">>, <<"1">> >>

RECURSIVE Concat(_)
Concat(ss) == IF ss = <<>> THEN <<>> ELSE ss[1] \o Concat(Tail(ss))

ChunkSeqs(n) == UNION { [1..k -> DOMAIN ChunkPool] : k \in 0..n }
Texts == { Concat([i \in DOMAIN cs |-> ChunkPool[cs[i]]]) : cs \in ChunkSeqs(MaxChunks) }

Envs ==
  [ USE_REAL_LLM : {None, <<"f","a","l","s","e">>, <<"t","r","u","e">>, <<"T","r","u","e">>},
    LLM_API_KEY : {None, <<>>, <<"k">>} ]

\* the step objects a completion can hold; "bogus" is a tool outside the schema
LlmStep(n, tl) ==
  PlanStep(n, "llm action", tl, IF tl = "none" THEN None ELSE <<"q">>)
LlmStepLists ==
  UNION { { [i \in 1..k |-> LlmStep(i, f[i])] :
              f \in [1..k -> ToolNames \cup {"bogus"}] } : k \in 0..MaxLlmSteps }
LlmObjects == [ reasoning : {None, <<"llm">>}, steps : LlmStepLists ]

\* what the one POST can end in
LlmFailures == {"network_error", "timeout", "http_error", "bad_envelope", "malformed_json"}
LlmResponses ==
  { [kind |-> k, data |-> None] : k \in LlmFailures }
    \cup { [kind |-> "ok", data |-> d] : d \in LlmObjects }

\* no POST was made
NoResponse == [kind |-> "none", data |-> None]

NoPlan == [reasoning |-> None, steps |-> <<>>]

(***************************************************************************)
(* The executor and the synthesizer (worker/agent/executor.py).            *)
(***************************************************************************)
\* NULL columns: NoPlan, NoResult, NoError and timestamp 0 (the clock starts at 1)
NoResult == [summary |-> <<>>, steps |-> <<>>, sources |-> <<>>]
NoError == "NULL"

\* one ToolCallRecord
ToolCallRecord(tl, inp, out) == [tool |-> tl, input |-> inp, output |-> out]

\* the result list a tool returned to the executor for this run: the filenames
\* of the doc hits and the ids of the incident hits, in ranked order
ToolOutput(tl, docHits, incHits) == IF tl = "search_docs" THEN docHits ELSE incHits

\* the ToolCallRecord log: one record per step with a tool, in plan order
RECURSIVE ToolCalls(_, _, _)
ToolCalls(steps, docHits, incHits) ==
  IF steps = <<>> THEN <<>>
  ELSE IF steps[1].tool = "none" THEN ToolCalls(Tail(steps), docHits, incHits)
  ELSE << ToolCallRecord(steps[1].tool, steps[1].tool_input,
                         ToolOutput(steps[1].tool, docHits, incHits)) >>
         \o ToolCalls(Tail(steps), docHits, incHits)

HasTool(p, tl) == \E i \in DOMAIN p.steps : p.steps[i].tool = tl

\* the hits accumulated over the steps of the plan
AccumulatedDocs(p, docHits) == IF HasTool(p, "search_docs") THEN docHits ELSE <<>>
AccumulatedIncidents(p, incHits) == IF HasTool(p, "query_incidents") THEN incHits ELSE <<>>

\* sources with the incident ids before the filenames
synthesize_IncidentsFirst(t, docs, incs) ==
  [ summary |-> <<"request", t, "docs", Len(docs), "incidents", Len(incs)>>,
    steps   |-> IF docs = <<>> /\ incs = <<>> THEN <<"no matching evidence">>
                ELSE [i \in DOMAIN docs |-> <<"doc", docs[i]>>]
                       \o [i \in DOMAIN incs |-> <<"incident", incs[i]>>],
    sources |-> incs \o docs ]

\* synthesize(requestText, docHits, incidentHits)
synthesize(t, docs, incs) ==
  [ summary |-> <<"request", t, "docs", Len(docs), "incidents", Len(incs)>>,
    steps   |-> IF docs = <<>> /\ incs = <<>> THEN <<"no matching evidence">>
                ELSE [i \in DOMAIN docs |-> <<"doc", docs[i]>>]
                       \o [i \in DOMAIN incs |-> <<"incident", incs[i]>>],
    sources |-> docs \o incs ]

\* execute_plan(text, plan, db): a tool call that raises propagates; storage
\* errors of query_incidents are the execution errors (search_docs has none)
execute_plan(t, p, docHits, incHits, storageFault) ==
  IF storageFault /\ HasTool(p, "query_incidents")
  THEN [raised |-> TRUE, error |-> "storage error", result |-> NoResult,
        tool_calls |-> <<>>]
  ELSE [raised |-> FALSE, error |-> "",
        result |-> synthesize(t, AccumulatedDocs(p, docHits),
                                 AccumulatedIncidents(p, incHits)),
        tool_calls |-> ToolCalls(p.steps, docHits, incHits)]

(***************************************************************************)
(* The requests table and the SQLAlchemy session.                          *)
(***************************************************************************)
\* Request(text=..., priority=..., status="queued") with the column defaults
NewRequest(t, prio) ==
  [ text |-> t, priority |-> prio, status |-> "queued", plan |-> NoPlan,
    tool_calls |-> <<>>, result |-> NoResult, error |-> NoError,
    started_at |-> 0, completed_at |-> 0 ]

\* attribute writes on db_request are pending in the session until db.commit()
\* writes them to the row; db.rollback() discards them
NoPending == [f \in {} |-> 0]
Write(pending, f, v) == [g \in DOMAIN pending \cup {f} |-> IF g = f THEN v ELSE pending[g]]
Commit(row, pending) ==
  [f \in DOMAIN row |-> IF f \in DOMAIN pending THEN pending[f] ELSE row[f]]
Rollback(pending) == NoPending

(***************************************************************************)
(* Inputs of the job lifecycle.                                            *)
(***************************************************************************)
\* a documentation request, an incident request and one outside both lists
JobTexts == { <<"f","i","x">>, <<"d","o","w","n">>, <<"a","b","c">> }
Priorities == {"normal", "high"}
\* what the tools return during one run (the corpus and the incident table
\* are the environment of the job)
JobDocHits == { <<>>, <<"db.md">> }
JobIncidentHits == { <<>>, <<"INC-1">> }
\* the worker runs with the default configuration: the deterministic planner
JobEnv == [USE_REAL_LLM |-> None, LLM_API_KEY |-> None]

\* the worker between jobs.  rid is the job of the last attempt, fetched the
\* row as db.query(...).first() loaded it, plan, result and tool_calls the
\* local variables of process_request, calls the calls made so far and
\* raised the exception that left process_request (NoError: it returned)
Idle ==
  [ pc |-> "idle", rid |-> 0, fetched |-> NewRequest(<<>>, "normal"), plan |-> NoPlan,
    result |-> NoResult, tool_calls |-> <<>>, calls |-> <<>>, raised |-> NoError ]

(***************************************************************************)
(* The planner as a state machine: one create_plan call.                   *)
(***************************************************************************)
PlanInit ==
  /\ text \in Texts
  /\ env \in Envs
  /\ plan = NoPlan
  /\ httpCalls = 0
  /\ planRaised = FALSE
  /\ llmResponse = NoResponse
  /\ ppc = "idle"

\* the completions the endpoint can answer with; the POST is made only when
\* the LLM planner is selected and a credential is set
PossibleResponses(e) ==
  IF UseLlm(e) /\ Truthy(e.LLM_API_KEY) THEN LlmResponses ELSE {NoResponse}

CreatePlan ==
  /\ ppc = "idle"
  /\ \E resp \in PossibleResponses(env) :
       LET r == create_plan(text, env, resp) IN
         /\ plan' = IF r.raised THEN NoPlan ELSE r.value
         /\ httpCalls' = r.posts
         /\ planRaised' = r.raised
         /\ llmResponse' = resp
  /\ ppc' = "done"
  /\ UNCHANGED <<text, env>>

(***************************************************************************)
(* The job lifecycle as a state machine.                                   *)
(***************************************************************************)
PlanIdle ==
  /\ text = <<>>
  /\ env = JobEnv
  /\ plan = NoPlan
  /\ httpCalls = 0
  /\ planRaised = FALSE
  /\ llmResponse = NoResponse
  /\ ppc = "off"

JobIdle ==
  /\ requests = <<>>
  /\ queue = <<>>
  /\ failedJobs = {}
  /\ worker = Idle
  /\ clock = 1
  /\ requeues = 0

DocsIdle ==
  /\ searchQuery = <<>>
  /\ dirExists = FALSE
  /\ corpus = <<>>
  /\ hits = <<>>
  /\ docsRaised = FALSE
  /\ dpc = "off"
  /\ iterOrder = <<>>

IncidentsIdle ==
  /\ incQuery = <<>>
  /\ incidents = <<>>
  /\ incFetched = <<>>
  /\ incResults = <<>>
  /\ ipc = "off"

RepeatIdle == prevHits = <<>>

\* a check that has not run, and no response
NoCheck == [raises |-> FALSE, message |-> <<>>, pending |-> 0]
NoHealth == [status |-> "", timestamp |-> 0, services |-> <<>>]
HealthIdle ==
  /\ dbCheck = NoCheck
  /\ redisCheck = NoCheck
  /\ queueCheck = NoCheck
  /\ healthNow = 0
  /\ health = NoHealth
  /\ hpc = "off"

ToolsIdle == IncidentsIdle /\ RepeatIdle /\ HealthIdle

JobInit == JobIdle /\ PlanIdle /\ DocsIdle /\ ToolsIdle

\* queue.enqueue(..., at_front=(priority == "high"))
Enqueue(q, id, at_front) == IF at_front THEN <<id>> \o q ELSE Append(q, id)

\* POST /requests: add the row, commit, then enqueue the job; enqueueOk is
\* FALSE when the enqueue raises (Redis unreachable) after the commit
CreateRequest ==
  /\ Len(requests) < MaxRequests
  /\ \E t \in JobTexts, prio \in Priorities, enqueueOk \in BOOLEAN :
       /\ requests' = Append(requests, NewRequest(t, prio))
       /\ queue' = IF enqueueOk
                   THEN Enqueue(queue, Len(requests) + 1, prio = "high")
                   ELSE queue
  /\ UNCHANGED <<failedJobs, worker, clock, requeues, pvars, dvars, tvars>>

\* process_request up to the first commit: fetch the row, status = running,
\* started_at = utcnow(), commit
StartJob ==
  /\ worker.pc = "idle"
  /\ queue # <<>>
  /\ LET rid == Head(queue)
         pending == Write(Write(NoPending, "status", "running"), "started_at", clock)
     IN  /\ requests' = [requests EXCEPT ![rid] = Commit(requests[rid], pending)]
         /\ worker' = [Idle EXCEPT !.pc = "planning", !.rid = rid,
                                   !.fetched = requests[rid],
                                   !.calls = <<"running">>]
  /\ queue' = Tail(queue)
  /\ clock' = clock + 1
  /\ UNCHANGED <<failedJobs, requeues, pvars, dvars, tvars>>

\* FailedRow without `db_request.error = str(e)`
FailedRow_NoError(row, pending, msg, now) ==
  Commit(row, Write(Write(Rollback(pending), "status", "failed"), "completed_at", now))

\* the except block: rollback, status = failed, error = str(e),
\* completed_at = utcnow(), commit
FailedRow(row, pending, msg, now) ==
  Commit(row, Write(Write(Write(Rollback(pending), "status", "failed"),
                          "error", msg), "completed_at", now))

\* ... and the bare raise that hands the exception to the hosting queue; called
\* is the call that raised
HandleFailure(pending, msg, called) ==
  /\ requests' = [requests EXCEPT
                    ![worker.rid] = FailedRow(requests[worker.rid], pending, msg, clock)]
  /\ worker' = [worker EXCEPT !.pc = "idle", !.raised = msg,
                              !.calls = worker.calls \o <<called, "except">>]
  /\ failedJobs' = failedJobs \cup {worker.rid}
  /\ clock' = clock + 1

\* Step A: plan = create_plan(text); db_request.plan = plan; commit
PlanJob ==
  /\ worker.pc = "planning"
  /\ LET r == create_plan(requests[worker.rid].text, JobEnv, NoResponse)
         calls == Append(worker.calls, "create_plan")
     IN  IF r.raised
         THEN HandleFailure(NoPending, "planning error", "create_plan")
         ELSE /\ requests' = [requests EXCEPT ![worker.rid] =
                                Commit(requests[worker.rid],
                                       Write(NoPending, "plan", r.value))]
              /\ worker' = [worker EXCEPT !.pc = "executing", !.plan = r.value,
                                          !.calls = calls]
              /\ UNCHANGED <<failedJobs, clock>>
  /\ UNCHANGED <<queue, requeues, pvars, dvars, tvars>>

\* DoneWrites without `db_request.tool_calls = [...]`
DoneWrites_NoToolCalls(r, now) ==
  Write(Write(Write(NoPending, "result", r.result), "status", "done"),
        "completed_at", now)

\* the writes of lines 59-62, pending until the commit of line 63
DoneWrites(r, now) ==
  Write(Write(Write(Write(NoPending, "result", r.result), "tool_calls", r.tool_calls),
              "status", "done"), "completed_at", now)

\* Step B: execute_plan, then store the results and commit, or the except block
ExecuteJob ==
  /\ worker.pc = "executing"
  /\ \E docHits \in JobDocHits, incHits \in JobIncidentHits, storageFault \in BOOLEAN :
       LET r == execute_plan(requests[worker.rid].text, worker.plan,
                             docHits, incHits, storageFault)
       IN  IF r.raised
           THEN HandleFailure(NoPending, r.error, "execute_plan")
           ELSE /\ requests' = [requests EXCEPT ![worker.rid] =
                                  Commit(requests[worker.rid], DoneWrites(r, clock))]
                /\ worker' = [worker EXCEPT !.pc = "idle",
                                !.result = r.result, !.tool_calls = r.tool_calls,
                                !.calls = Append(worker.calls, "execute_plan")]
                /\ clock' = clock + 1
                /\ UNCHANGED failedJobs
  /\ UNCHANGED <<queue, requeues, pvars, dvars, tvars>>

\* the hosting queue runs a failed job again (rq requeue)
Requeue ==
  /\ requeues < MaxRequeues
  /\ \E rid \in failedJobs :
       /\ queue' = Append(queue, rid)
       /\ failedJobs' = failedJobs \ {rid}
  /\ requeues' = requeues + 1
  /\ UNCHANGED <<requests, worker, clock, pvars, dvars, tvars>>

JobNext == CreateRequest \/ StartJob \/ PlanJob \/ ExecuteJob \/ Requeue
JobSpec == JobInit /\ [][JobNext]_vars

\* the worker takes a waiting job and runs each attempt to its end (rq runs
\* the jobs of its queue one after the other); the API and the requeue of a
\* failed job are under no obligation
JobFairSpec ==
  JobSpec /\ WF_vars(StartJob) /\ WF_vars(PlanJob) /\ WF_vars(ExecuteJob)

PlanNext == CreatePlan /\ UNCHANGED <<jvars, dvars, tvars>>
PlanSpecInit == PlanInit /\ JobIdle /\ DocsIdle /\ ToolsIdle
PlanSpec == PlanSpecInit /\ [][PlanNext]_vars

(***************************************************************************)
(* The document search tool (worker/agent/tools.py).                       *)
(***************************************************************************)
Max(a, b) == IF a > b THEN a ELSE b
Min(a, b) == IF a < b THEN a ELSE b

\* s[a:b] with Python's index rules: positions count from 0, a negative
\* index counts from the end, indices are clamped to the string
SliceIndex(s, i) == IF i < 0 THEN Max(i + Len(s), 0) ELSE Min(i, Len(s))
Slice(s, a, b) == SubSeq(s, SliceIndex(s, a) + 1, SliceIndex(s, b))

\* s.find(sub, from): the lowest 0-based position at or after from, else -1
Find(s, sub, from) ==
  LET at == { i \in from..(Len(s) - Len(sub)) : SubSeq(s, i + 1, i + Len(sub)) = sub }
  IN  IF at = {} THEN -1 ELSE CHOOSE i \in at : \A j \in at : i <= j

\* s.rfind(sub, 0, end): the highest 0-based position with the match inside
\* s[0:end], else -1
RFind(s, sub, end) ==
  LET at == { i \in 0..(Min(end, Len(s)) - Len(sub)) : SubSeq(s, i + 1, i + Len(sub)) = sub }
  IN  IF at = {} THEN -1 ELSE CHOOSE i \in at : \A j \in at : i >= j

\* s.strip()
Whitespace == {" ", "\n", "\t", "\r"}
RECURSIVE LStrip(_)
LStrip(s) == IF s # <<>> /\ s[1] \in Whitespace THEN LStrip(Tail(s)) ELSE s
RECURSIVE RStrip(_)
RStrip(s) ==
  IF s # <<>> /\ s[Len(s)] \in Whitespace THEN RStrip(SubSeq(s, 1, Len(s) - 1)) ELSE s
Strip(s) == RStrip(LStrip(s))

Ellipsis == <<".", ".", ".">>
\* context_chars of _extract_snippet
ContextChars == 200

\* the snippet cut around position pos of content
SnippetAt(content, pos) ==
  LET start0 == Max(0, pos - ContextChars \div 2)
      end0 == Min(Len(content), pos + ContextChars \div 2)
      start == IF start0 > 0 THEN Find(content, <<" ">>, start0) + 1 ELSE start0
      end == IF end0 < Len(content) THEN RFind(content, <<" ">>, end0) ELSE end0
      snippet == Strip(Slice(content, start, end))
  IN  IF start > 0 THEN Ellipsis \o snippet \o Ellipsis ELSE snippet \o Ellipsis

\* _extract_snippet(content, keywords): order is the order in which the for
\* loop iterates the keyword set
RECURSIVE extract_snippet(_, _)
extract_snippet(content, order) ==
  IF order = <<>> THEN Strip(Slice(content, 0, ContextChars)) \o Ellipsis
  ELSE LET pos == Find(Lower(content), order[1], 0)
       IN  IF pos # -1 THEN SnippetAt(content, pos)
           ELSE extract_snippet(content, Tail(order))

\* keywords = set(re.findall(r"\b[a-zA-Z]{3,}\b", query.lower()))
QueryKeywords(q) == Range(FindAll(Lower(q)))

\* the orders a set can be iterated in
Orders(S) ==
  { f \in [1..Cardinality(S) -> S] : \A i, j \in DOMAIN f : f[i] = f[j] => i = j }

\* matches = sum(1 for kw in keywords if kw in content_lower)
Matches(keywords, content) ==
  LET content_lower == Lower(content)
  IN  Cardinality({ kw \in keywords : Contains(kw, content_lower) })

\* the body of the try block for one file: read_text raises on a file that
\* cannot be read or decoded; a file with matches yields one result
ScoreFile(file, order) ==
  IF ~file.readable THEN [raised |-> TRUE, results |-> <<>>]
  ELSE LET matches == Matches(Range(order), file.content)
       IN  [ raised |-> FALSE,
             results |-> IF matches > 0
                         THEN << [ filename |-> file.filename,
                                   snippet |-> extract_snippet(file.content, order),
                                   relevance_score |-> matches ] >>
                         ELSE <<>> ]

\* FileError without the except clause: the exception leaves the loop
FileError_Propagates(r) == r

\* except Exception: log the error and continue with the next file
FileError(r) == IF r.raised THEN [raised |-> FALSE, results |-> <<>>] ELSE r

\* for md_file in RUNBOOKS_DIR.glob("*.md"): ...
RECURSIVE ScanFiles(_, _)
ScanFiles(files, order) ==
  IF files = <<>> THEN [raised |-> FALSE, results |-> <<>>]
  ELSE LET r == FileError(ScoreFile(files[1], order))
       IN  IF r.raised THEN r
           ELSE LET rest == ScanFiles(Tail(files), order)
                IN  [raised |-> rest.raised, results |-> r.results \o rest.results]

\* SortByScore that puts a result before the results of equal score
RECURSIVE SortByScore_Unstable(_)
SortByScore_Unstable(rs) ==
  IF rs = <<>> THEN <<>>
  ELSE LET sorted == SortByScore_Unstable(SubSeq(rs, 1, Len(rs) - 1))
           x == rs[Len(rs)]
           k == Cardinality({ i \in DOMAIN sorted :
                                sorted[i].relevance_score > x.relevance_score })
       IN  SubSeq(sorted, 1, k) \o <<x>> \o SubSeq(sorted, k + 1, Len(sorted))

\* results.sort(key=relevance_score, reverse=True): list.sort is stable, also
\* with reverse=True; each result goes after those of greater or equal score
RECURSIVE SortByScore(_)
SortByScore(rs) ==
  IF rs = <<>> THEN <<>>
  ELSE LET sorted == SortByScore(SubSeq(rs, 1, Len(rs) - 1))
           x == rs[Len(rs)]
           k == Cardinality({ i \in DOMAIN sorted :
                                sorted[i].relevance_score >= x.relevance_score })
       IN  SubSeq(sorted, 1, k) \o <<x>> \o SubSeq(sorted, k + 1, Len(sorted))

\* results[:5]
MaxResults == 5

search_docs(q, exists, files, order) ==
  IF ~exists THEN [raised |-> FALSE, value |-> <<>>]
  ELSE LET r == ScanFiles(files, order)
       IN  IF r.raised THEN [raised |-> TRUE, value |-> <<>>]
           ELSE [raised |-> FALSE, value |-> Slice(SortByScore(r.results), 0, MaxResults)]

(***************************************************************************)
(* Inputs of the document search.                                          *)
(***************************************************************************)
\* no keyword; one keyword; two keywords, one capitalised; the same keyword
\* twice; a keyword no file holds; a word next to a digit (no keyword)
DocQueries ==
  { <<>>,
    <<"f","i","x">>,
    <<"F","i","x"," ","d","o","w","n">>,
    <<"f","i","x"," ","f","i","x">>,
    <<"z","z","z">>,
    <<"f","i","x","1">> }

\* file contents: one keyword inside a longer word, two keywords (one
\* capitalised), no keyword
DocContents ==
  { <<"p","r","e","f","i","x"," ","i","t">>,
    <<"D","o","w","n"," ","t","o"," ","f","i","x">>,
    <<"a","b","c">> }

FileNames == <<"a.md", "b.md", "c.md", "d.md", "e.md", "f.md", "g.md", "h.md">>

\* a file of the directory; an unreadable file has no content to speak of
FileKinds ==
  [readable : {TRUE}, content : DocContents]
    \cup [readable : {FALSE}, content : {<<>>}]
File(i, kind) ==
  [filename |-> FileNames[i], readable |-> kind.readable, content |-> kind.content]
Corpora ==
  UNION { { [i \in 1..n |-> File(i, ks[i])] : ks \in [1..n -> FileKinds] } : n \in 0..MaxFiles }

(***************************************************************************)
(* The document search as a state machine: one search_docs call.           *)
(***************************************************************************)
DocsInit ==
  /\ searchQuery \in DocQueries
  /\ dirExists \in BOOLEAN
  /\ corpus \in Corpora
  /\ dirExists \/ corpus = <<>>
  /\ hits = <<>>
  /\ docsRaised = FALSE
  /\ dpc = "idle"
  /\ iterOrder = <<>>

SearchDocs ==
  /\ dpc = "idle"
  /\ \E order \in Orders(QueryKeywords(searchQuery)) :
       LET r == search_docs(searchQuery, dirExists, corpus, order) IN
         /\ hits' = r.value
         /\ docsRaised' = r.raised
         /\ iterOrder' = order
  /\ dpc' = "done"
  /\ UNCHANGED <<searchQuery, dirExists, corpus>>

DocsNext == SearchDocs /\ UNCHANGED <<pvars, jvars, tvars>>
DocsSpecInit == DocsInit /\ PlanIdle /\ JobIdle /\ ToolsIdle
DocsSpec == DocsSpecInit /\ [][DocsNext]_vars

(***************************************************************************)
(* Long documents, and search_docs called twice over the same corpus.      *)
(***************************************************************************)
\* n characters of running text, a space after every word
Words(n) == [i \in 1..n |-> <<"t", "h", "e", " ">>[((i - 1) % 4) + 1]]
\* n characters without a space (a link, a table row, an encoded value)
Filler(n) == [i \in 1..n |-> "x"]

\* a runbook: a heading marker, then two keywords with text before, between
\* and after them
Gaps == { <<>>, Words(MaxGap \div 3), Words(MaxGap), Filler(MaxGap) }
LongContents ==
  { <<"#", " ">> \o g1 \o <<"f","i","x">> \o g2 \o <<"D","o","w","n">> \o g3 :
      g1 \in Gaps, g2 \in Gaps, g3 \in Gaps }

\* one keyword; the other; both, one capitalised; a stop word
LongQueries ==
  { <<"f","i","x">>,
    <<"d","o","w","n">>,
    <<"F","i","x"," ","d","o","w","n">>,
    <<"t","h","e">> }

LongDocsInit ==
  /\ searchQuery \in LongQueries
  /\ dirExists = TRUE
  /\ corpus \in { <<File(1, [readable |-> TRUE, content |-> c])>> : c \in LongContents }
  /\ hits = <<>>
  /\ docsRaised = FALSE
  /\ dpc = "idle"
  /\ iterOrder = <<>>
  /\ prevHits = <<>>

\* the same call once more, from a worker process of its own: the hash seed
\* of str differs between interpreter processes, and with it the order in
\* which a set of str is iterated
SearchDocsAgain ==
  /\ dpc = "done"
  /\ \E order \in Orders(QueryKeywords(searchQuery)) :
       LET r == search_docs(searchQuery, dirExists, corpus, order) IN
         /\ hits' = r.value
         /\ docsRaised' = r.raised
         /\ iterOrder' = order
  /\ prevHits' = hits
  /\ dpc' = "again"
  /\ UNCHANGED <<searchQuery, dirExists, corpus>>

LongDocsNext ==
  \/ SearchDocs /\ UNCHANGED <<pvars, jvars, tvars>>
  \/ SearchDocsAgain /\ UNCHANGED <<pvars, jvars, ivars, hvars>>
LongDocsSpecInit == LongDocsInit /\ PlanIdle /\ JobIdle /\ IncidentsIdle /\ HealthIdle
LongDocsSpec == LongDocsSpecInit /\ [][LongDocsNext]_vars

(***************************************************************************)
(* The incident search tool (worker/agent/tools.py).                       *)
(***************************************************************************)
\* the characters of identifiers and timestamps in code point order, for the
\* comparison of str values
CodePoints == <<"-", "0", "1", "2", "3", "4", "5", "6", "7", "8", "9", ":", "T">>
Ord(c) == CHOOSE i \in DOMAIN CodePoints : CodePoints[i] = c

\* a < b on str: the first position that differs decides, a prefix is smaller
RECURSIVE StrLess(_, _)
StrLess(a, b) ==
  IF b = <<>> THEN FALSE
  ELSE IF a = <<>> THEN TRUE
  ELSE IF a[1] = b[1] THEN StrLess(Tail(a), Tail(b))
  ELSE Ord(a[1]) < Ord(b[1])

\* a number written with two digits, as the fields of isoformat() are
DigitChars == <<"0", "1", "2", "3", "4", "5", "6", "7", "8", "9">>
TwoDigits(n) == <<DigitChars[((n \div 10) % 10) + 1], DigitChars[(n % 10) + 1]>>

\* datetime.isoformat() of the timestamp t: timestamps are the days of one
\* month, written 2024-01-DDT00:00:00
IsoFormat(t) ==
  <<"2","0","2","4","-","0","1","-">> \o TwoDigits(t)
    \o <<"T","0","0",":","0","0",":","0","0">>

\* column ILIKE '%kw%': kw is lower case and holds letters only; NULL never matches
ILike(column, kw) == column # None /\ Contains(kw, Lower(column))

\* or_(*conditions): some keyword in title, description, service, root_cause
\* or resolution
SearchedColumns == {"title", "description", "service", "root_cause", "resolution"}
MatchesFilter(row, keywords) ==
  \E kw \in keywords, c \in SearchedColumns : ILike(row[c], kw)

\* ORDER BY created_at DESC: the rows by falling created_at; rows of equal
\* created_at come in the order the storage picks, here by rising or by
\* falling position in the table (tiesReversed)
Before(rows, i, j, tiesReversed) ==
  \/ rows[i].created_at > rows[j].created_at
  \/ rows[i].created_at = rows[j].created_at /\ (IF tiesReversed THEN i > j ELSE i < j)
\* ORDER BY created_at ASC
OrderByCreatedDesc_Ascending(rows, tiesReversed) ==
  LET rank(i) == Cardinality({ j \in DOMAIN rows : Before(rows, i, j, tiesReversed) }) + 1
  IN  [k \in DOMAIN rows |-> rows[CHOOSE i \in DOMAIN rows : rank(i) = k]]

OrderByCreatedDesc(rows, tiesReversed) ==
  LET rank(i) == Cardinality({ j \in DOMAIN rows : Before(rows, j, i, tiesReversed) }) + 1
  IN  [k \in DOMAIN rows |-> rows[CHOOSE i \in DOMAIN rows : rank(i) = k]]

\* .limit(5) of the query without keywords and .limit(10) of the filtered one
RecentLimit == 5
FilterLimit == 10

\* the two queries of query_incidents
FetchIncidents(rows, keywords, tiesReversed) ==
  IF keywords = {}
  THEN Prefix(OrderByCreatedDesc(rows, tiesReversed), RecentLimit)
  ELSE Prefix(OrderByCreatedDesc(SelectSeq(rows, LAMBDA r : MatchesFilter(r, keywords)),
                                 tiesReversed),
              FilterLimit)

\* the dict built for one incident; the two timestamps become isoformat strings
IncidentResult(row) ==
  [ id |-> row.id, title |-> row.title, description |-> row.description,
    severity |-> row.severity, status |-> row.status, service |-> row.service,
    root_cause |-> row.root_cause, resolution |-> row.resolution,
    created_at |-> IF row.created_at # 0 THEN IsoFormat(row.created_at) ELSE None,
    resolved_at |-> IF row.resolved_at # 0 THEN IsoFormat(row.resolved_at) ELSE None,
    tags |-> row.tags ]

\* the values of the dict that are non-empty str, in the order of the dict;
\* tags is a list and is left out
StringFields ==
  << "id", "title", "description", "severity", "status", "service", "root_cause",
     "resolution", "created_at", "resolved_at" >>
SearchableText(result) ==
  LET vals == SelectSeq([i \in DOMAIN StringFields |-> result[StringFields[i]]],
                        LAMBDA v : v # None /\ v # <<>>)
  IN  JoinSpace([i \in DOMAIN vals |-> Lower(vals[i])])

\* score = number of keywords that occur in the title
RelevanceScore_TitleOnly(result, keywords) ==
  Cardinality({ kw \in keywords : Contains(kw, Lower(result.title)) })

\* score = number of keywords that occur in searchable_text
RelevanceScore(result, keywords) ==
  LET searchable_text == SearchableText(result)
  IN  Cardinality({ kw \in keywords : Contains(kw, searchable_text) })

Scored(result, keywords) ==
  [ f \in DOMAIN result \cup {"relevance_score"} |->
      IF f = "relevance_score" THEN RelevanceScore(result, keywords) ELSE result[f] ]

\* the sort key (relevance_score, created_at) and its order under reverse=True
KeyGreaterOrEqual(x, y) ==
  \/ x.relevance_score > y.relevance_score
  \/ x.relevance_score = y.relevance_score /\ ~StrLess(x.created_at, y.created_at)

\* results.sort(key=..., reverse=True): a stable sort, each result goes after
\* the results whose key is greater or equal
RECURSIVE SortByScoreAndRecency(_)
SortByScoreAndRecency(rs) ==
  IF rs = <<>> THEN <<>>
  ELSE LET sorted == SortByScoreAndRecency(SubSeq(rs, 1, Len(rs) - 1))
           x == rs[Len(rs)]
           k == Cardinality({ i \in DOMAIN sorted : KeyGreaterOrEqual(sorted[i], x) })
       IN  SubSeq(sorted, 1, k) \o <<x>> \o SubSeq(sorted, k + 1, Len(sorted))

\* the loop stores the default of tags in the loaded rows, and the session
\* flushes them
RowsAfterQuery_TagsStored(rows, fetched) ==
  [k \in DOMAIN rows |->
     IF rows[k] \in Range(fetched) /\ rows[k].tags = None
     THEN [rows[k] EXCEPT !.tags = <<>>]
     ELSE rows[k]]

\* the rows of the table after the call: the loops read the attributes of the
\* loaded rows and write to the result dicts only, so the session has nothing
\* to flush
RowsAfterQuery(rows, fetched) == rows

query_incidents(q, rows, tiesReversed) ==
  LET keywords == QueryKeywords(q)
      fetched == FetchIncidents(rows, keywords, tiesReversed)
      results == [i \in DOMAIN fetched |-> Scored(IncidentResult(fetched[i]), keywords)]
  IN  [ fetched |-> fetched,
        value |-> Slice(SortByScoreAndRecency(results), 0, MaxResults),
        rows |-> RowsAfterQuery(rows, fetched) ]

(***************************************************************************)
(* Inputs of the incident search.                                          *)
(***************************************************************************)
\* the empty query; a query without a word of three letters; one keyword; two
\* keywords, one capitalised; a keyword of a resolution; a keyword that is
\* found in the status column, next to one found in a title
IncQueries ==
  { <<>>,
    <<"a","b"," ","1","2">>,
    <<"f","i","x">>,
    <<"F","i","x"," ","d","o","w","n">>,
    <<"d","o","w","n">>,
    <<"f","i","x"," ","o","p","e","n">> }

IncidentId(i) == <<"I","N","C","-">> \o TwoDigits(i)

\* the incidents differ in the columns that hold the words: the title alone,
\* the resolution with two words, or no column at all
IncidentKinds == {"titled", "resolved", "quiet"}
Incident(i, kind, at) ==
  CASE kind = "titled" ->
       [ id |-> IncidentId(i), title |-> <<"F","i","x"," ","i","t">>,
         description |-> None, severity |-> <<"h","i","g","h">>,
         status |-> <<"o","p","e","n">>, service |-> <<"a","p","i">>,
         root_cause |-> None, resolution |-> None,
         created_at |-> at, resolved_at |-> 0, tags |-> None ]
    [] kind = "resolved" ->
       [ id |-> IncidentId(i), title |-> <<"a","b","c">>,
         description |-> <<>>, severity |-> <<"l","o","w">>,
         status |-> <<"r","e","s","o","l","v","e","d">>, service |-> None,
         root_cause |-> <<"l","o","a","d">>,
         resolution |-> <<"D","o","w","n"," ","t","o"," ","f","i","x">>,
         created_at |-> at, resolved_at |-> at, tags |-> <<"db">> ]
    [] OTHER ->
       [ id |-> IncidentId(i), title |-> <<"a","b","c">>,
         description |-> None, severity |-> <<"l","o","w">>,
         status |-> <<"o","p","e","n">>, service |-> None,
         root_cause |-> None, resolution |-> None,
         created_at |-> at, resolved_at |-> 0, tags |-> None ]

\* the kinds repeat along the table with period KindPeriod
KindPeriod == 3
KindPatterns == [1..KindPeriod -> IncidentKinds]
KindAt(i, ks) == ks[((i - 1) % KindPeriod) + 1]

\* created_at of the i-th row: rising with the position, equal two by two, or
\* in an order of its own (5 i mod 19 is a permutation of 1..18)
TimePatterns == {"rising", "paired", "shuffled"}
CreatedAt(i, pattern) ==
  CASE pattern = "rising" -> i
    [] pattern = "paired" -> (i + 1) \div 2
    [] OTHER -> (5 * i) % 19

IncidentTables ==
  UNION { { [i \in 1..n |-> Incident(i, KindAt(i, ks), CreatedAt(i, pat))] :
              ks \in KindPatterns, pat \in TimePatterns } : n \in 0..MaxIncidents }

(***************************************************************************)
(* The incident search as a state machine: one query_incidents call.       *)
(***************************************************************************)
IncidentsInit ==
  /\ incQuery \in IncQueries
  /\ incidents \in IncidentTables
  /\ incFetched = <<>>
  /\ incResults = <<>>
  /\ ipc = "idle"

QueryIncidents ==
  /\ ipc = "idle"
  /\ \E tiesReversed \in BOOLEAN :
       LET r == query_incidents(incQuery, incidents, tiesReversed) IN
         /\ incFetched' = r.fetched
         /\ incResults' = r.value
         /\ incidents' = r.rows
  /\ ipc' = "done"
  /\ UNCHANGED incQuery

IncidentsNext == QueryIncidents /\ UNCHANGED <<pvars, jvars, dvars, prevHits, hvars>>
IncidentsSpecInit == IncidentsInit /\ PlanIdle /\ JobIdle /\ DocsIdle /\ RepeatIdle /\ HealthIdle
IncidentsSpec == IncidentsSpecInit /\ [][IncidentsNext]_vars

(***************************************************************************)
(* The health endpoint (api/routes.py).                                    *)
(***************************************************************************)
\* str(n) of a number below 100
Str(n) == IF n < 10 THEN <<DigitChars[n + 1]>> ELSE TwoDigits(n)

Healthy == <<"h","e","a","l","t","h","y">>
\* f"unhealthy: {str(e)}"
Unhealthy(message) == <<"u","n">> \o Healthy \o <<":"," ">> \o message
\* f"healthy ({len(queue)} jobs pending)"
HealthyQueue(pending) ==
  Healthy \o <<" ","(">> \o Str(pending)
    \o <<" ","j","o","b","s"," ","p","e","n","d","i","n","g",")">>

\* one try/except block: the value stored in services for the outcome of
\* the check
ServiceStatus(check, healthyValue) ==
  IF check.raises THEN Unhealthy(check.message) ELSE healthyValue

\* services after the three blocks, in insertion order
Services(db, redis, rq) ==
  << [name |-> "database", value |-> ServiceStatus(db, Healthy)],
     [name |-> "redis", value |-> ServiceStatus(redis, Healthy)],
     [name |-> "queue", value |-> ServiceStatus(rq, HealthyQueue(rq.pending))] >>

\* "healthy" if all("healthy" in v for v in services.values()) else "degraded":
\* `in` on two str is the substring test
OverallStatus(services) ==
  IF \A i \in DOMAIN services : Contains(Healthy, services[i].value)
  THEN "healthy" ELSE "degraded"

health_check(db, redis, rq, now) ==
  LET services == Services(db, redis, rq)
  IN  [status |-> OverallStatus(services), timestamp |-> now, services |-> services]

(***************************************************************************)
(* Inputs of the health endpoint.                                          *)
(***************************************************************************)
\* str(e) of the exceptions: a refused connection, a timeout, an exception
\* without a message
ErrorMessages ==
  { <<"r","e","f","u","s","e","d">>, <<"t","i","m","e","o","u","t">>, <<>> }
\* a check succeeds or raises
ConnectionChecks ==
  {[raises |-> FALSE, message |-> <<>>, pending |-> 0]}
    \cup [raises : {TRUE}, message : ErrorMessages, pending : {0}]
QueueChecks ==
  [raises : {FALSE}, message : {<<>>}, pending : 0..MaxPending]
    \cup [raises : {TRUE}, message : ErrorMessages, pending : {0}]

(***************************************************************************)
(* The health endpoint as a state machine: one GET /health.                *)
(***************************************************************************)
HealthInit ==
  /\ dbCheck \in ConnectionChecks
  /\ redisCheck \in ConnectionChecks
  /\ queueCheck \in QueueChecks
  /\ healthNow \in 1..2
  /\ health = NoHealth
  /\ hpc = "idle"

HealthCheck ==
  /\ hpc = "idle"
  /\ health' = health_check(dbCheck, redisCheck, queueCheck, healthNow)
  /\ hpc' = "done"
  /\ UNCHANGED <<dbCheck, redisCheck, queueCheck, healthNow>>

HealthNext == HealthCheck /\ UNCHANGED <<pvars, jvars, dvars, ivars, prevHits>>
HealthSpecInit ==
  HealthInit /\ PlanIdle /\ JobIdle /\ DocsIdle /\ IncidentsIdle /\ RepeatIdle
HealthSpec == HealthSpecInit /\ [][HealthNext]_vars

(***************************************************************************)
(* Properties of the planner.                                              *)
(***************************************************************************)
Planned == ppc = "done"
Deterministic == Planned /\ ~UseLlm(env)
LastStep(p) == p.steps[Len(p.steps)]

\* the Plan invariant of the data model
PlanInvariant(p) ==
  /\ p.steps # <<>>
  /\ LastStep(p).tool = "none"
  /\ \A i \in 1..(Len(p.steps) - 1) : p.steps[i].tool \in {"search_docs", "query_incidents"}

\* C1: in deterministic mode the plan returned by create_plan has a non-empty
\* steps list, its last step has tool none and every earlier step has the
\* tool search_docs or query_incidents.
C1_DeterministicPlanEndsWithSynthesis == Deterministic => PlanInvariant(plan)

\* a deterministic plan with two tool steps before the synthesis step
C1_Witness == Deterministic /\ Len(plan.steps) = 3

InVocabulary(t) ==
  \E kw \in Range(DOC_KEYWORDS) \cup Range(INCIDENT_KEYWORDS) : Contains(kw, Lower(t))

\* C5: a text whose lower-cased form contains no documentation word and no
\* incident word as a substring gets a deterministic plan with both a
\* search_docs step and a query_incidents step.
C5_FailOpen ==
  Deterministic /\ ~InVocabulary(text)
    => HasTool(plan, "search_docs") /\ HasTool(plan, "query_incidents")

\* a planned non-empty text without any vocabulary word, such as "abc1"
C5_Witness == Deterministic /\ ~InVocabulary(text) /\ Len(text) > 3

StepsWith(p, tl) == { i \in DOMAIN p.steps : p.steps[i].tool = tl }

\* C6: in a deterministic plan search_docs precedes query_incidents, both
\* carry the same tool_input, the synthesis step is last, no tool occurs
\* twice, and step_number is 1, 2, ..., n in list order.
C6_StepOrder ==
  Deterministic =>
    /\ \A i \in StepsWith(plan, "search_docs"), j \in StepsWith(plan, "query_incidents") :
         i < j /\ plan.steps[i].tool_input = plan.steps[j].tool_input
    /\ StepsWith(plan, "none") = {Len(plan.steps)}
    /\ Cardinality(StepsWith(plan, "search_docs")) <= 1
    /\ Cardinality(StepsWith(plan, "query_incidents")) <= 1
    /\ \A i \in DOMAIN plan.steps : plan.steps[i].step_number = i

\* a deterministic plan holding both tools, whose shared input has two keywords
C6_Witness ==
  /\ Deterministic
  /\ HasTool(plan, "search_docs") /\ HasTool(plan, "query_incidents")
  /\ Contains(<<" ">>, plan.steps[1].tool_input)
  /\ plan.steps[1].tool_input # text

\* the LLM path failed: no credential, or the POST or the parsing failed
LlmFailed ==
  \/ ~Truthy(env.LLM_API_KEY)
  \/ llmResponse.kind \in LlmFailures
  \/ llmResponse.kind = "ok" /\ ~ValidPlanData(llmResponse.data)

\* C7: with LLM planning enabled create_plan raises nothing and makes at most
\* one POST, and when the credential is missing or the call fails (network
\* error, timeout, non-2xx, malformed JSON, schema mismatch) it returns the
\* deterministic plan of the same text.
C7_LlmFallback ==
  Planned /\ UseLlm(env) =>
    /\ ~planRaised
    /\ httpCalls <= 1
    /\ LlmFailed => plan = create_deterministic_plan(text)

\* the POST was made and timed out, and a plan came back all the same
C7_Witness ==
  /\ Planned /\ UseLlm(env)
  /\ llmResponse.kind = "timeout" /\ httpCalls = 1
  /\ plan.steps # <<>>

\* C8: with LLM planning enabled, whatever JSON object the endpoint returns,
\* the plan returned by create_plan satisfies the Plan invariant.
C8_LlmPlanInvariant == Planned /\ UseLlm(env) => PlanInvariant(plan)

(***************************************************************************)
(* Properties of the job lifecycle.                                        *)
(***************************************************************************)
Ids == DOMAIN requests
Terminal(st) == st \in {"done", "failed"}

\* C2: a request whose status is done or failed never changes status again,
\* whatever process_request attempts follow (re-runs after a failure included).
C2_TerminalAbsorbing ==
  [][\A rid \in Ids : Terminal(requests[rid].status)
                        => requests'[rid].status = requests[rid].status]_vars

\* the step in which an attempt of process_request ends in its except block
AttemptFails == worker.pc # "idle" /\ worker'.pc = "idle" /\ worker'.raised # NoError
\* the step in which an attempt of process_request returns
AttemptSucceeds == worker.pc # "idle" /\ worker'.pc = "idle" /\ worker'.raised = NoError

\* what the except block persists, and the re-raise
FailurePersisted ==
  /\ requests'[worker.rid].status = "failed"
  /\ requests'[worker.rid].error = worker'.raised
  /\ requests'[worker.rid].completed_at = clock /\ clock > 0
  /\ worker.rid \in failedJobs'

\* C3 as claimed: when planning or execution raises, every write of the
\* attempt is rolled back, so the plan, result and tool calls of the row are
\* those the attempt fetched; the error is persisted, the status is failed,
\* completed_at is recorded and the exception is re-raised.
C3_AllWritesRolledBack ==
  [][AttemptFails =>
       /\ requests'[worker.rid].plan = worker.fetched.plan
       /\ requests'[worker.rid].result = worker.fetched.result
       /\ requests'[worker.rid].tool_calls = worker.fetched.tool_calls
       /\ FailurePersisted]_vars

\* C3 amended: when execution raises, the result and the tool calls of the row
\* are those the attempt fetched, the plan and the started_at the attempt
\* committed before stay persisted, the error is persisted, the status is
\* failed, completed_at is recorded and the exception is re-raised.
C3_UncommittedWritesRolledBack ==
  [][AttemptFails =>
       /\ requests'[worker.rid].result = worker.fetched.result
       /\ requests'[worker.rid].tool_calls = worker.fetched.tool_calls
       /\ requests'[worker.rid].plan = worker.plan
       /\ requests'[worker.rid].started_at = requests[worker.rid].started_at
       /\ requests[worker.rid].status = "running"
       /\ FailurePersisted]_vars

\* an attempt has failed in execute_plan on a row that had no plan before, and
\* the plan of the attempt is in the row
C3_Witness ==
  /\ worker.pc = "idle" /\ worker.raised = "storage error"
  /\ worker.calls = <<"running", "create_plan", "execute_plan", "except">>
  /\ worker.fetched.plan = NoPlan
  /\ requests[worker.rid].status = "failed"
  /\ requests[worker.rid].plan = worker.plan /\ worker.plan # NoPlan

ToolSteps(p) == SelectSeq(p.steps, LAMBDA st : st.tool # "none")

\* C4: when planning and execution succeed the row holds the plan, the whole
\* tool-call log and the AgentResult, status done and completed_at, and the
\* planner was called before the executor, after the commit of running.
C4_SuccessPersisted ==
  worker.pc = "idle" /\ worker.rid # 0 /\ worker.raised = NoError =>
    LET row == requests[worker.rid] IN
      /\ row.status = "done"
      /\ row.plan = worker.plan /\ PlanInvariant(row.plan)
      /\ row.result = worker.result /\ row.result # NoResult
      /\ row.tool_calls = worker.tool_calls
      /\ Len(row.tool_calls) = Len(ToolSteps(row.plan))
      /\ row.completed_at > row.started_at /\ row.started_at > 0
      /\ worker.calls = <<"running", "create_plan", "execute_plan">>

\* a successful attempt whose plan had two tool steps and both found a hit
C4_Witness ==
  /\ worker.pc = "idle" /\ worker.rid # 0 /\ worker.raised = NoError
  /\ Len(requests[worker.rid].tool_calls) = 2
  /\ Len(requests[worker.rid].result.sources) = 2

(***************************************************************************)
(* Properties of the document search.                                      *)
(***************************************************************************)
Searched == dpc = "done"

\* the position of a file in the directory enumeration, by its name
FileIndex(name) == CHOOSE i \in DOMAIN corpus : corpus[i].filename = name
HitNames == { hits[i].filename : i \in DOMAIN hits }

\* the number of distinct keywords of the query found in the lower-cased file
Score(file) ==
  Cardinality({ kw \in Range(FindAll(Lower(searchQuery))) :
                  Contains(kw, Lower(file.content)) })

\* C9: search_docs returns at most 5 hits; every hit has relevance_score >= 1,
\* the number of distinct query keywords that are substrings of the
\* lower-cased document; scores do not increase along the list; hits of equal
\* score keep the directory order; no omitted document scores higher than a
\* returned one.
C9_RankedTopFive ==
  Searched =>
    /\ Len(hits) <= 5
    /\ \A i \in DOMAIN hits :
         /\ hits[i].filename \in { corpus[k].filename : k \in DOMAIN corpus }
         /\ hits[i].relevance_score >= 1
         /\ hits[i].relevance_score = Score(corpus[FileIndex(hits[i].filename)])
    /\ \A i, j \in DOMAIN hits :
         i < j =>
           /\ hits[i].relevance_score >= hits[j].relevance_score
           /\ hits[i].relevance_score = hits[j].relevance_score
                => FileIndex(hits[i].filename) < FileIndex(hits[j].filename)
    /\ \A k \in DOMAIN corpus, i \in DOMAIN hits :
         corpus[k].readable /\ corpus[k].filename \notin HitNames
           => Score(corpus[k]) <= hits[i].relevance_score

\* six files match, with both scores among them: one file is cut off and a
\* file of score 2 that comes late in the directory moved to the front
C9_Witness ==
  /\ Searched
  /\ Len(hits) = 5
  /\ Cardinality({ k \in DOMAIN corpus : corpus[k].readable /\ Score(corpus[k]) >= 1 }) = 6
  /\ hits[1].relevance_score = 2 /\ hits[5].relevance_score = 1
  /\ FileIndex(hits[1].filename) > FileIndex(hits[2].filename)

Matching == { k \in DOMAIN corpus : corpus[k].readable /\ Score(corpus[k]) >= 1 }

\* C10: search_docs raises nothing; it returns the empty list when the
\* directory is absent and when no document matches a keyword; a file that
\* cannot be read is skipped, and the documents that can be read are still
\* scored and returned.
C10_NeverRaises ==
  Searched =>
    /\ ~docsRaised
    /\ ~dirExists => hits = <<>>
    /\ Matching = {} => hits = <<>>
    /\ \A i \in DOMAIN hits : corpus[FileIndex(hits[i].filename)].readable
    /\ Len(hits) = Min(Cardinality(Matching), 5)
    /\ Cardinality(HitNames) = Len(hits)

\* an unreadable file stands before a matching one, which is returned
C10_Witness ==
  /\ Searched
  /\ Len(corpus) >= 2 /\ ~corpus[1].readable
  /\ hits # <<>>

(***************************************************************************)
(* Properties of the incident search.                                      *)
(***************************************************************************)
Queried == ipc = "done"
ResultIds == { incResults[i].id : i \in DOMAIN incResults }
IncidentOf(result) == CHOOSE k \in DOMAIN incidents : incidents[k].id = result.id
CreatedOf(result) == incidents[IncidentOf(result)].created_at

\* C11: with a query that yields no keyword, query_incidents returns the 5
\* most recently created incidents (all of them when the table holds fewer),
\* whatever their columns hold, by falling creation time.
C11_MostRecentFive ==
  (Queried /\ QueryKeywords(incQuery) = {}) =>
    /\ Len(incResults) = Min(5, Len(incidents))
    /\ Cardinality(ResultIds) = Len(incResults)
    /\ \A i \in DOMAIN incResults : \E k \in DOMAIN incidents : incidents[k].id = incResults[i].id
    /\ \A i, j \in DOMAIN incResults : i < j => CreatedOf(incResults[i]) >= CreatedOf(incResults[j])
    /\ \A k \in DOMAIN incidents :
         incidents[k].id \notin ResultIds =>
           \A i \in DOMAIN incResults : incidents[k].created_at <= CreatedOf(incResults[i])

\* a query of characters without a keyword, more than five incidents of
\* several kinds, the most recent one not first in the table
C11_Witness ==
  /\ Queried
  /\ incQuery # <<>> /\ QueryKeywords(incQuery) = {}
  /\ Len(incidents) > 5 /\ Len(incResults) = 5
  /\ \E k, l \in DOMAIN incidents : incidents[k].title # incidents[l].title
  /\ IncidentOf(incResults[1]) # 1
  /\ IncidentOf(incResults[1]) # Len(incidents)

\* the incidents in which a keyword of the query occurs, whatever the case, in
\* one of the five searched columns
KeywordIn(kw, value) == value # None /\ Contains(kw, Lower(value))
MatchingIncidents ==
  { k \in DOMAIN incidents :
      \E kw \in QueryKeywords(incQuery) :
        \/ KeywordIn(kw, incidents[k].title)
        \/ KeywordIn(kw, incidents[k].description)
        \/ KeywordIn(kw, incidents[k].service)
        \/ KeywordIn(kw, incidents[k].root_cause)
        \/ KeywordIn(kw, incidents[k].resolution) }
FetchedIds == { incFetched[i].id : i \in DOMAIN incFetched }

\* the number of keywords found in a string field of the returned record
KeywordsFound(result) ==
  Cardinality({ kw \in QueryKeywords(incQuery) :
                  \E f \in DOMAIN result \ {"tags", "relevance_score"} : KeywordIn(kw, result[f]) })

\* result x stands before result y: higher score, or the same score and
\* created no earlier
RankedBefore(sx, cx, sy, cy) == sx > sy \/ (sx = sy /\ cx >= cy)

\* C12: with a query that yields keywords, query_incidents considers the (at
\* most 10) most recently created incidents in which a keyword occurs in
\* title, description, service, root_cause or resolution, and returns at most
\* 5 of them by falling relevance_score and, at equal score, falling
\* created_at; relevance_score is the number of keywords found in the
\* lower-cased string fields of the record.
C12_FilteredAndRanked ==
  (Queried /\ QueryKeywords(incQuery) # {}) =>
    /\ Len(incFetched) = Min(10, Cardinality(MatchingIncidents))
    /\ Cardinality(FetchedIds) = Len(incFetched)
    /\ \A i \in DOMAIN incFetched :
         \E k \in MatchingIncidents : incidents[k] = incFetched[i]
    /\ \A k \in MatchingIncidents :
         incidents[k].id \notin FetchedIds =>
           \A i \in DOMAIN incFetched : incidents[k].created_at <= incFetched[i].created_at
    /\ Len(incResults) = Min(5, Len(incFetched))
    /\ Cardinality(ResultIds) = Len(incResults)
    /\ ResultIds \subseteq FetchedIds
    /\ \A i \in DOMAIN incResults :
         /\ incResults[i].relevance_score = KeywordsFound(incResults[i])
         /\ incResults[i].title = incidents[IncidentOf(incResults[i])].title
    /\ \A i, j \in DOMAIN incResults :
         i < j => RankedBefore(incResults[i].relevance_score, CreatedOf(incResults[i]),
                               incResults[j].relevance_score, CreatedOf(incResults[j]))
    /\ \A i \in DOMAIN incFetched :
         incFetched[i].id \notin ResultIds =>
           \A j \in DOMAIN incResults :
             RankedBefore(incResults[j].relevance_score, CreatedOf(incResults[j]),
                          KeywordsFound(IncidentResult(incFetched[i])), incFetched[i].created_at)

\* two keywords, more than ten matching incidents, results of two scores, and
\* the most recent fetched incident is not the first result
C12_Witness ==
  /\ Queried
  /\ Cardinality(QueryKeywords(incQuery)) = 2
  /\ Cardinality(MatchingIncidents) > 10 /\ Len(incFetched) = 10
  /\ Len(incResults) = 5
  /\ incResults[1].id # incFetched[1].id
  /\ \E i \in DOMAIN incFetched :
       /\ incFetched[i].id \notin ResultIds
       /\ KeywordsFound(IncidentResult(incFetched[i])) < incResults[1].relevance_score
  /\ \E k \in DOMAIN incidents : k \notin MatchingIncidents

\* C13: query_incidents leaves the incident storage as it found it: no row is
\* added, removed or changed by a call.
C13_StorageUnchanged == [][incidents' = incidents]_vars

\* a call that fetched rows, one of them with tags NULL, and returned hits
C13_Witness ==
  /\ Queried
  /\ incResults # <<>>
  /\ \E i \in DOMAIN incFetched : incFetched[i].tags = None
  /\ \E i \in DOMAIN incFetched : incFetched[i].tags # None

(***************************************************************************)
(* Properties of the executor.                                             *)
(***************************************************************************)
\* execute_plan has returned to process_request
Executed == worker.pc = "idle" /\ worker.rid # 0 /\ worker.raised = NoError

\* the sources that are filenames of doc hits and those that are incident ids
DocSources == UNION { Range(h) : h \in JobDocHits }
IncidentSources == UNION { Range(h) : h \in JobIncidentHits }

\* C14: execute_plan appends one ToolCallRecord per plan step that has a
\* tool, in plan order (two records for the plan search_docs,
\* query_incidents, synthesis), and sources of the AgentResult lists every
\* doc-hit filename before every incident-hit id.
C14_OneRecordPerToolStep ==
  Executed =>
    LET toolSteps == ToolSteps(worker.plan)
        sources == worker.result.sources
    IN  /\ Len(worker.tool_calls) = Len(toolSteps)
        /\ \A i \in DOMAIN toolSteps :
             /\ worker.tool_calls[i].tool = toolSteps[i].tool
             /\ worker.tool_calls[i].input = toolSteps[i].tool_input
        /\ Len(worker.plan.steps) = 3 => Len(worker.tool_calls) = 2
        /\ \A i, j \in DOMAIN sources :
             sources[i] \in DocSources /\ sources[j] \in IncidentSources => i < j
        /\ \A i \in DOMAIN worker.tool_calls :
             \A k \in DOMAIN worker.tool_calls[i].output :
               worker.tool_calls[i].output[k] \in Range(sources)

\* the three-step plan was executed, both tools returned a hit
C14_Witness ==
  /\ Executed
  /\ Len(worker.plan.steps) = 3
  /\ worker.tool_calls[1].tool = "search_docs"
  /\ worker.tool_calls[2].tool = "query_incidents"
  /\ worker.result.sources = <<"db.md", "INC-1">>

(***************************************************************************)
(* Properties of the snippets and of repeated calls.                       *)
(***************************************************************************)
SearchedTwice == dpc = "again"

\* C15: two search_docs calls with the same query over an unchanged corpus
\* return the same list, equal in every field of every hit, the snippet
\* included, whichever order the keyword set is iterated in.
C15_SameOutputTwice == SearchedTwice => hits = prevHits

\* the keyword the snippet of a hit is centred on: the first keyword in
\* iteration order that occurs in the document, at its first occurrence
ContentOf(hit) == corpus[FileIndex(hit.filename)].content
CentredKeyword(hit) ==
  LET found == SelectSeq(iterOrder, LAMBDA kw : Contains(kw, Lower(ContentOf(hit))))
  IN  found[1]
HasEllipsisPrefix(snippet) == Len(snippet) >= 6 /\ SubSeq(snippet, 1, 3) = Ellipsis
\* the documents begin with a heading marker that occurs nowhere else: the
\* text of a snippet starts at position 0 exactly when it starts with the marker
StartsAtZero(body) == body # <<>> /\ body[1] = "#"

\* C18: the snippet of every hit contains the keyword it is centred on, spans
\* at most about 200 characters of the document (100 on each side of the
\* keyword, less what the snapping to spaces takes away), and begins with an
\* ellipsis exactly when it does not start at position 0 of the document.
C18_SnippetAroundKeyword ==
  dpc \in {"done", "again"} =>
    \A i \in DOMAIN hits :
      LET snippet == hits[i].snippet
          body == IF HasEllipsisPrefix(snippet)
                  THEN SubSeq(snippet, 4, Len(snippet) - 3)
                  ELSE SubSeq(snippet, 1, Len(snippet) - 3)
      IN  /\ Contains(CentredKeyword(hits[i]), Lower(body))
          /\ Len(body) <= ContextChars
          /\ HasEllipsisPrefix(snippet) <=> ~StartsAtZero(body)

(***************************************************************************)
(* Properties of the keyword extractor and of the tokenizing of queries.   *)
(***************************************************************************)
\* the runs of 3 or more alphabetic characters of t, lower-cased: a run ends
\* where the next character is not a letter
AlphaRuns(t) ==
  LET s == Lower(t)
      letter(i) == i \in DOMAIN s /\ IsLetter(s[i])
  IN  { SubSeq(s, p[1], p[2]) :
          p \in { q \in (DOMAIN s) \X (DOMAIN s) :
                    /\ q[2] - q[1] >= 2
                    /\ \A k \in q[1]..q[2] : letter(k)
                    /\ ~letter(q[1] - 1) /\ ~letter(q[2] + 1) } }

\* C16: the keyword extractor returns a set of lower-case tokens: every run
\* of 3 or more alphabetic characters of the text that is not a stop word is
\* in the result, no stop word and no token of fewer than 3 letters is in
\* it, and no token occurs twice.
C16_KeywordSet ==
  Planned =>
    LET keywords == extract_keywords(text) IN
      /\ Range(keywords) = AlphaRuns(text) \ stop_words
      /\ \A i \in DOMAIN keywords :
           /\ Len(keywords[i]) >= 3
           /\ keywords[i] = Lower(keywords[i])
           /\ keywords[i] \notin stop_words
      /\ \A i, j \in DOMAIN keywords : keywords[i] = keywords[j] => i = j

\* C17: search_docs tokenizes its query with the keyword extractor, stop
\* words discarded: for a query made of stop words only the keyword set is
\* empty and search_docs returns no hit.
C17_StopWordsDiscarded ==
  (dpc \in {"done", "again"} /\ extract_keywords(searchQuery) = <<>>) => hits = <<>>

(***************************************************************************)
(* Properties of the stored request over its whole life.                   *)
(***************************************************************************)
\* C19: after any sequence of process_request attempts the stored row agrees
\* with its status: done implies a result and no error, failed implies an
\* error, queued implies no plan, no result and no error.
C19_RowMatchesStatus ==
  \A id \in Ids :
    LET row == requests[id] IN
      /\ row.status = "done" => row.result # NoResult /\ row.error = NoError
      /\ row.status = "failed" => row.error # NoError
      /\ row.status = "queued" =>
           row.plan = NoPlan /\ row.result = NoResult /\ row.error = NoError

\* C20: every request that create_request has stored with status queued is
\* processed in the end: with a fairly scheduled worker it reaches done or
\* failed, also when the enqueue after the commit has failed.
C20_EventuallyProcessed ==
  \A id \in 1..MaxRequests :
    [](id \in Ids => <>(id \in Ids /\ Terminal(requests[id].status)))

(***************************************************************************)
(* Properties of the health endpoint.                                      *)
(***************************************************************************)
AllChecksSucceed == ~dbCheck.raises /\ ~redisCheck.raises /\ ~queueCheck.raises

\* C21: health_check reports the overall status healthy only when the
\* database, Redis and queue checks all succeed; when one of the three
\* checks raises, the overall status is degraded.
C21_HealthyOnlyWhenAllSucceed ==
  hpc = "done" =>
    /\ health.status = "healthy" => AllChecksSucceed
    /\ ~AllChecksSucceed => health.status = "degraded"

====
